---- MODULE Spec2Model ----
(***************************************************************************)
(* Bird-strike mitigation service (src/app.py): the risk engine            *)
(* (estimate_time_to_conflict, evaluate_risk), the planner (plan_action),  *)
(* the audit identity (compute_input_hash, decision_id), the audit log and *)
(* the two endpoints /evaluate and /plan.                                  *)
(*                                                                         *)
(* Numbers.  Lengths are integers in units of 0.5 mm and velocities in     *)
(* units of 0.5 mm/s, so that a quotient distance / speed is in seconds    *)
(* and the speed gate 1e-3 m/s of line 216 is 2 units.  Probabilities are  *)
(* integers in percent.  The code takes two square roots (lines 215, 222)  *)
(* and divides them (line 229); the model does the same arithmetic on the  *)
(* reals exactly by carrying every time t as the rational t*|t| (its       *)
(* signed square), a normalised fraction <<n, d>> with d > 0.  t |-> t*|t| *)
(* is strictly increasing, so every comparison, min and max of the code is *)
(* the same comparison, min and max of the carried values.                 *)
(*                                                                         *)
(* Optional values: None is <<>>, a present value v is <<v>>.              *)
(***************************************************************************)
EXTENDS Integers, Sequences, FiniteSets, TLC

VARIABLES RISK_CONFIG, request, response, log, served, calls

vars == <<RISK_CONFIG, request, response, log, served, calls>>

----------------------------------------------------------------------------
(* Bounds of the model *)

MaxBirds == 2

MaxCalls == 3

----------------------------------------------------------------------------
(* Constants of the program *)

ENGINE_VERSION == "0.2.0"

SpeedEps == 2

None == <<>>

Some(v) == <<v>>

----------------------------------------------------------------------------
(* Exact arithmetic on times carried as signed squares *)

Abs(x) == IF x >= 0 THEN x ELSE -x

RECURSIVE GCD(_, _)
GCD(a, b) == IF b = 0 THEN a ELSE GCD(b, a % b)

Frac(n, d) == LET g == GCD(Abs(n), d) IN <<n \div g, d \div g>>

Seconds(c) == <<IF c >= 0 THEN c * c ELSE -(c * c), 1>>

Lt(a, b) == a[1] * b[2] < b[1] * a[2]

Ge(a, b) == ~Lt(a, b)

PyMin(a, b) == IF Lt(b, a) THEN b ELSE a

PyMax(a, b) == IF Lt(a, b) THEN b ELSE a

----------------------------------------------------------------------------
(* Domain models *)

RiskLevels == {"NONE", "LOW", "MEDIUM", "HIGH", "CRITICAL"}

ActionTypes == {"MAINTAIN", "SLOW_DOWN", "CLIMB", "DESCEND", "TURN_LEFT",
                "TURN_RIGHT", "HOLD", "ABORT_MISSION"}

RiskConfig(dist, clamp, bands) ==
    [version |-> "2025-11-30-a",
     distance_threshold_m |-> dist,
     min_ttc_s |-> clamp[1],
     max_ttc_s |-> clamp[2],
     ttc_low_threshold_s |-> bands[1],
     ttc_medium_threshold_s |-> bands[2],
     ttc_high_threshold_s |-> bands[3],
     prob_presence_only |-> 5,
     prob_low |-> 10,
     prob_medium |-> 30,
     prob_high |-> 60,
     prob_critical |-> 80]

(* The configurations the engine is run with.  RiskConfig validates        *)
(* nothing, so the clamp bounds and the band edges come in any order; the  *)
(* probabilities are the defaults of lines 58-62.                          *)
Configs ==
    {RiskConfig(dist, clamp, bands) :
        dist \in {4, 12},
        clamp \in {<<1, 4>>, <<2, 3>>, <<3, 2>>},
        bands \in {<<4, 3, 2>>, <<2, 3, 4>>}}

Coords == {<<4, 0, 0>>, <<8, 8, 4>>}

Velocities == {<<0, 0, 0>>, <<1, 1, 1>>, <<2, 0, 4>>}

BirdIds == {"b1", "b2"}

BirdDetection == [id : BirdIds, position : Coords, velocity : Velocities]

AircraftState == [callsign : {"AC1"}, position : {<<0, 0, 0>>},
                  velocity : {<<2, 0, 0>>}]

SeqsUpTo(S, n) == UNION {[1..k -> S] : k \in 0..n}

RiskQuery == [aircraft : AircraftState, birds : SeqsUpTo(BirdDetection, MaxBirds)]

DecisionIds == {"d1", "d2"}

ValidationError == [error |-> "ValidationError"]

(* RiskAssessment(...): pydantic checks collision_probability against      *)
(* Field(ge=0.0, le=1.0) when the object is built.                         *)
RiskAssessment(level, prob, ttc, bird_id, rationale, decision_id, input_hash, config_version) ==
    IF prob >= 0 /\ prob <= 100
    THEN [risk_level |-> level,
          collision_probability |-> prob,
          time_to_conflict_s |-> ttc,
          most_threatening_bird_id |-> bird_id,
          rationale |-> rationale,
          decision_id |-> decision_id,
          input_hash |-> input_hash,
          engine_version |-> ENGINE_VERSION,
          config_version |-> config_version]
    ELSE ValidationError

ActionRecommendation(action, urgency, rationale, approval) ==
    [action |-> action, urgency |-> urgency, rationale |-> rationale,
     requires_human_approval |-> approval]

----------------------------------------------------------------------------
(* Core helpers *)

(* json.dumps(query.dict(), sort_keys=True) is a canonical text of the     *)
(* whole query, list order kept; sha256 is taken as collision free, so the *)
(* digest is carried as the text it was computed from.                     *)
compute_input_hash(query) ==
    [sha256 |-> [aircraft |-> query.aircraft, birds |-> query.birds]]

Norm2(v) == v[1] * v[1] + v[2] * v[2] + v[3] * v[3]

Minus(u, v) == <<u[1] - v[1], u[2] - v[2], u[3] - v[3]>>

RelativeSpeed2(aircraft, bird) == Norm2(Minus(aircraft.velocity, bird.velocity))

Distance2(aircraft, bird) == Norm2(Minus(aircraft.position, bird.position))

(* relative_speed < 1e-3: both sides are >= 0, compared as squares *)
SpeedGate(aircraft, bird) == RelativeSpeed2(aircraft, bird) < SpeedEps * SpeedEps

(* Mutant: the distance gate closed at the threshold itself (>=) *)
DistanceGate_Inclusive(aircraft, bird, config) ==
    ~Lt(<<Distance2(aircraft, bird), 1>>, Seconds(config.distance_threshold_m))

(* distance > config.distance_threshold_m, compared as signed squares *)
DistanceGate(aircraft, bird, config) ==
    Lt(Seconds(config.distance_threshold_m), <<Distance2(aircraft, bird), 1>>)

(* Mutant: the ceiling of the clamp forgotten *)
Clamp_FloorOnly(config, raw_ttc) == PyMax(Seconds(config.min_ttc_s), raw_ttc)

Clamp(config, raw_ttc) ==
    PyMax(Seconds(config.min_ttc_s), PyMin(Seconds(config.max_ttc_s), raw_ttc))

estimate_time_to_conflict(aircraft, bird, config) ==
    IF SpeedGate(aircraft, bird) THEN None
    ELSE IF DistanceGate(aircraft, bird, config) THEN None
    ELSE Some(Clamp(config, Frac(Distance2(aircraft, bird),
                                 RelativeSpeed2(aircraft, bird))))

(* Mutants of the loop's comparison: <= for <, the first valid TTC kept,   *)
(* the latest valid TTC kept                                               *)
Better_OrEqual(ttc, best) ==
    IF ttc = None THEN FALSE
    ELSE best.ttc = None \/ ~Lt(best.ttc[1], ttc[1])

Better_FirstValid(ttc, best) == ttc # None /\ best.ttc = None

Better_Latest(ttc, best) == ttc # None

(* One pass of the loop of lines 274-281 *)
Better(ttc, best) ==
    IF ttc = None THEN FALSE
    ELSE best.ttc = None \/ Lt(ttc[1], best.ttc[1])

RECURSIVE Scan(_, _, _, _, _)
Scan(aircraft, birds, config, i, best) ==
    IF i > Len(birds) THEN best
    ELSE LET ttc == estimate_time_to_conflict(aircraft, birds[i], config)
         IN  Scan(aircraft, birds, config, i + 1,
                  IF Better(ttc, best)
                  THEN [ttc |-> ttc, bird |-> Some(birds[i])]
                  ELSE best)

(* Mutant: the band edges compared with > instead of >= *)
Band_Strict(config, best_ttc) ==
    IF Lt(Seconds(config.ttc_low_threshold_s), best_ttc)
    THEN [level |-> "LOW", prob |-> config.prob_low]
    ELSE IF Lt(Seconds(config.ttc_medium_threshold_s), best_ttc)
    THEN [level |-> "MEDIUM", prob |-> config.prob_medium]
    ELSE IF Lt(Seconds(config.ttc_high_threshold_s), best_ttc)
    THEN [level |-> "HIGH", prob |-> config.prob_high]
    ELSE [level |-> "CRITICAL", prob |-> config.prob_critical]

Band(config, best_ttc) ==
    IF Ge(best_ttc, Seconds(config.ttc_low_threshold_s))
    THEN [level |-> "LOW", prob |-> config.prob_low]
    ELSE IF Ge(best_ttc, Seconds(config.ttc_medium_threshold_s))
    THEN [level |-> "MEDIUM", prob |-> config.prob_medium]
    ELSE IF Ge(best_ttc, Seconds(config.ttc_high_threshold_s))
    THEN [level |-> "HIGH", prob |-> config.prob_high]
    ELSE [level |-> "CRITICAL", prob |-> config.prob_critical]

NoBirdsRationale == "No birds in current surveillance volume."

NoConflictRationale ==
    "Birds present but no projected near-term conflicts within configured thresholds."

(* The f-string of lines 322-325: the bird's id and the TTC it formats *)
ConflictRationale(bird_id, ttc) ==
    [text |-> "Closest projected conflict", bird |-> bird_id, ttc |-> ttc]

(* The three return paths of evaluate_risk: the events handed to           *)
(* logger.info and what is returned (or raised).                           *)
NoBirdsOutcome(config, decision_id, input_hash) ==
    [logged |-> <<[decision_id |-> decision_id,
                   risk_level |-> "NONE",
                   collision_probability |-> 0,
                   reason |-> NoBirdsRationale]>>,
     result |-> RiskAssessment("NONE", 0, None, None, NoBirdsRationale,
                               decision_id, input_hash, config.version)]

(* Mutant: the presence-only path reporting the LOW band's probability *)
PresenceOnlyOutcome_ProbLow(config, decision_id, input_hash) ==
    [logged |-> <<[decision_id |-> decision_id,
                   risk_level |-> "LOW",
                   collision_probability |-> config.prob_low,
                   reason |-> NoConflictRationale]>>,
     result |-> RiskAssessment("LOW", config.prob_low, None, None,
                               NoConflictRationale, decision_id, input_hash,
                               config.version)]

PresenceOnlyOutcome(config, decision_id, input_hash) ==
    [logged |-> <<[decision_id |-> decision_id,
                   risk_level |-> "LOW",
                   collision_probability |-> config.prob_presence_only,
                   reason |-> NoConflictRationale]>>,
     result |-> RiskAssessment("LOW", config.prob_presence_only, None, None,
                               NoConflictRationale, decision_id, input_hash,
                               config.version)]

(* Mutant: the decision id written into the rationale *)
ConflictOutcome_IdInRationale(config, best, decision_id, input_hash) ==
    LET band == Band(config, best.ttc[1])
        bird_id == best.bird[1].id
    IN  [logged |-> <<[decision_id |-> decision_id,
                       risk_level |-> band.level,
                       collision_probability |-> band.prob,
                       time_to_conflict_s |-> best.ttc[1],
                       most_threatening_bird_id |-> bird_id]>>,
         result |-> RiskAssessment(band.level, band.prob, best.ttc, Some(bird_id),
                                   [text |-> "Closest projected conflict",
                                    bird |-> bird_id, ttc |-> best.ttc[1],
                                    decision |-> decision_id],
                                   decision_id, input_hash, config.version)]

ConflictOutcome(config, best, decision_id, input_hash) ==
    LET band == Band(config, best.ttc[1])
        bird_id == best.bird[1].id
    IN  [logged |-> <<[decision_id |-> decision_id,
                       risk_level |-> band.level,
                       collision_probability |-> band.prob,
                       time_to_conflict_s |-> best.ttc[1],
                       most_threatening_bird_id |-> bird_id]>>,
         result |-> RiskAssessment(band.level, band.prob, best.ttc, Some(bird_id),
                                   ConflictRationale(bird_id, best.ttc[1]),
                                   decision_id, input_hash, config.version)]

(* decision_id is the uuid4 drawn at line 245 *)
evaluate_risk(query, config, decision_id) ==
    LET input_hash == compute_input_hash(query)
        best == Scan(query.aircraft, query.birds, config, 1,
                     [ttc |-> None, bird |-> None])
    IN  IF query.birds = <<>>
        THEN NoBirdsOutcome(config, decision_id, input_hash)
        ELSE IF best.ttc = None \/ best.bird = None
        THEN PresenceOnlyOutcome(config, decision_id, input_hash)
        ELSE ConflictOutcome(config, best, decision_id, input_hash)

(* Mutant: HIGH answered with a turn to the left *)
plan_action_TurnLeft(assessment) ==
    IF assessment.risk_level \in {"NONE", "LOW"}
    THEN ActionRecommendation("MAINTAIN", assessment.risk_level,
             "Risk is NONE/LOW. Maintain current trajectory with monitoring.",
             FALSE)
    ELSE IF assessment.risk_level = "MEDIUM"
    THEN ActionRecommendation("SLOW_DOWN", "MEDIUM",
             "Medium near-term risk. Recommend speed reduction and altitude review.",
             TRUE)
    ELSE IF assessment.risk_level = "HIGH"
    THEN ActionRecommendation("TURN_LEFT", "HIGH",
             "High risk of conflict. Recommend lateral deviation away from threat vector.",
             TRUE)
    ELSE ActionRecommendation("ABORT_MISSION", "CRITICAL",
             "Critical near-term conflict predicted. Recommend immediate abort / escape.",
             TRUE)

plan_action(assessment) ==
    IF assessment.risk_level \in {"NONE", "LOW"}
    THEN ActionRecommendation("MAINTAIN", assessment.risk_level,
             "Risk is NONE/LOW. Maintain current trajectory with monitoring.",
             FALSE)
    ELSE IF assessment.risk_level = "MEDIUM"
    THEN ActionRecommendation("SLOW_DOWN", "MEDIUM",
             "Medium near-term risk. Recommend speed reduction and altitude review.",
             TRUE)
    ELSE IF assessment.risk_level = "HIGH"
    THEN ActionRecommendation("TURN_RIGHT", "HIGH",
             "High risk of conflict. Recommend lateral deviation away from threat vector.",
             TRUE)
    ELSE ActionRecommendation("ABORT_MISSION", "CRITICAL",
             "Critical near-term conflict predicted. Recommend immediate abort / escape.",
             TRUE)

----------------------------------------------------------------------------
(* API endpoints.  request and response are the last call's; log is what   *)
(* the logger has received; served is every (query, config, answer) the    *)
(* service has given.                                                      *)

Ok(body) == [status |-> 200, body |-> body]

Http500(detail) == [status |-> 500, detail |-> detail]

EvaluateReply(result) ==
    IF result = ValidationError THEN Http500("Internal evaluation error")
    ELSE Ok(result)

PlanReply(result) ==
    IF result = ValidationError THEN Http500("Internal planning error")
    ELSE Ok([assessment |-> result, recommendation |-> plan_action(result)])

(* What one call leaves behind: out is what evaluate_risk logged and       *)
(* returned, reply is what the endpoint answers.                           *)
Served(endpoint, query, out, reply) ==
    /\ request' = Some([endpoint |-> endpoint, query |-> query])
    /\ log' = log \o out.logged
    /\ response' = Some(reply)
    /\ served' = served \cup {[query |-> query, config |-> RISK_CONFIG,
                               result |-> out.result]}
    /\ calls' = calls + 1
    /\ UNCHANGED RISK_CONFIG

evaluate(query, decision_id) ==
    LET out == evaluate_risk(query, RISK_CONFIG, decision_id)
    IN  Served("/evaluate", query, out, EvaluateReply(out.result))

plan(query, decision_id) ==
    LET out == evaluate_risk(query, RISK_CONFIG, decision_id)
    IN  Served("/plan", query, out, PlanReply(out.result))

Start(configs) ==
    /\ RISK_CONFIG \in configs
    /\ request = None
    /\ response = None
    /\ log = <<>>
    /\ served = {}
    /\ calls = 0

(* The service: any number of calls (MaxCalls bounds the run)              *)
ServiceConfigs == {RiskConfig(4, <<1, 4>>, <<4, 3, 2>>)}

ServiceQueries ==
    {q \in RiskQuery : Len(q.birds) <= 1 /\ \A i \in DOMAIN q.birds : q.birds[i].id = "b1"}

Init == Start(ServiceConfigs)

Evaluate ==
    /\ calls < MaxCalls
    /\ \E query \in ServiceQueries, decision_id \in DecisionIds :
          evaluate(query, decision_id)

Plan ==
    /\ calls < MaxCalls
    /\ \E query \in ServiceQueries, decision_id \in DecisionIds :
          plan(query, decision_id)

Next == Evaluate \/ Plan

Spec == Init /\ [][Next]_vars

(* The engine on one call, over every configuration and query *)
InitEngine == Start(Configs)

EngineEvaluate ==
    /\ calls = 0
    /\ \E query \in RiskQuery : evaluate(query, "d1")

EnginePlan ==
    /\ calls = 0
    /\ \E query \in RiskQuery : plan(query, "d1")

NextEngine == EngineEvaluate \/ EnginePlan

SpecEngine == InitEngine /\ [][NextEngine]_vars

----------------------------------------------------------------------------
(* Reading the last call *)

Answered == response # None /\ response[1].status = 200

Query == request[1].query

Assessment ==
    IF request[1].endpoint = "/plan" THEN response[1].body.assessment
    ELSE response[1].body

TtcOf(i) == estimate_time_to_conflict(Query.aircraft, Query.birds[i], RISK_CONFIG)

Valid == {i \in DOMAIN Query.birds : TtcOf(i) # None}

BandsOrdered(config) ==
    /\ config.ttc_low_threshold_s > config.ttc_medium_threshold_s
    /\ config.ttc_medium_threshold_s > config.ttc_high_threshold_s

Rank(level) ==
    CASE level = "NONE" -> 0
      [] level = "LOW" -> 1
      [] level = "MEDIUM" -> 2
      [] level = "HIGH" -> 3
      [] level = "CRITICAL" -> 4

----------------------------------------------------------------------------
(* C1: with ttc_low > ttc_medium > ttc_high > 0, the minimum valid TTC t    *)
(* is banded LOW/prob_low when t >= ttc_low, MEDIUM/prob_medium when        *)
(* ttc_medium <= t < ttc_low, HIGH/prob_high when ttc_high <= t <           *)
(* ttc_medium, CRITICAL/prob_critical when t < ttc_high; a TTC equal to a   *)
(* threshold gets the band of the >= comparison.                            *)
C1_Banding ==
    (/\ response # None
     /\ Valid # {}
     /\ BandsOrdered(RISK_CONFIG)
     /\ RISK_CONFIG.ttc_high_threshold_s > 0)
    => /\ Answered
       /\ Assessment.time_to_conflict_s # None
       /\ LET t == Assessment.time_to_conflict_s[1]
              c == RISK_CONFIG
              low == Seconds(c.ttc_low_threshold_s)
              medium == Seconds(c.ttc_medium_threshold_s)
              high == Seconds(c.ttc_high_threshold_s)
              is(level, prob) == /\ Assessment.risk_level = level
                                 /\ Assessment.collision_probability = prob
          IN  /\ Ge(t, low) => is("LOW", c.prob_low)
              /\ (Ge(t, medium) /\ Lt(t, low)) => is("MEDIUM", c.prob_medium)
              /\ (Ge(t, high) /\ Lt(t, medium)) => is("HIGH", c.prob_high)
              /\ Lt(t, high) => is("CRITICAL", c.prob_critical)

(* a minimum TTC exactly at ttc_high, banded HIGH *)
C1_Witness ==
    /\ Answered
    /\ BandsOrdered(RISK_CONFIG)
    /\ RISK_CONFIG.ttc_high_threshold_s > 0
    /\ Assessment.time_to_conflict_s = Some(Seconds(RISK_CONFIG.ttc_high_threshold_s))
    /\ Assessment.risk_level = "HIGH"
    /\ Assessment.collision_probability = RISK_CONFIG.prob_high

(* C2: plan_action is a function of risk_level alone: NONE and LOW give     *)
(* MAINTAIN without approval, MEDIUM SLOW_DOWN, HIGH TURN_RIGHT, CRITICAL   *)
(* ABORT_MISSION, these three with approval; urgency is the risk_level.     *)
C2_PlanTable ==
    (Answered /\ request[1].endpoint = "/plan")
    => LET level == Assessment.risk_level
           expected == CASE level \in {"NONE", "LOW"} -> <<"MAINTAIN", FALSE>>
                         [] level = "MEDIUM" -> <<"SLOW_DOWN", TRUE>>
                         [] level = "HIGH" -> <<"TURN_RIGHT", TRUE>>
                         [] level = "CRITICAL" -> <<"ABORT_MISSION", TRUE>>
           r == response[1].body.recommendation
           others == {[Assessment EXCEPT !.collision_probability = p,
                                         !.time_to_conflict_s = t,
                                         !.most_threatening_bird_id = b,
                                         !.decision_id = d]
                        : p \in {0, 100}, t \in {None, Some(Seconds(1))},
                          b \in {None, Some("b1")}, d \in DecisionIds}
       IN  /\ r.action = expected[1]
           /\ r.requires_human_approval = expected[2]
           /\ r.urgency = level
           /\ \A other \in others : plan_action(other) = r

C2_Witness ==
    /\ Answered
    /\ request[1].endpoint = "/plan"
    /\ Assessment.risk_level = "CRITICAL"
    /\ response[1].body.recommendation.action = "ABORT_MISSION"
    /\ response[1].body.recommendation.requires_human_approval

(* C3: with no modelled conflict evaluate_risk does not raise and returns   *)
(* a complete assessment without TTC and threat id: NONE with probability   *)
(* 0 for an empty bird list, LOW with prob_presence_only when the list is   *)
(* not empty and every track is gated out.                                  *)
C3_NoConflict ==
    (response # None /\ Valid = {})
    => /\ Answered
       /\ Assessment.time_to_conflict_s = None
       /\ Assessment.most_threatening_bird_id = None
       /\ DOMAIN Assessment = {"risk_level", "collision_probability",
               "time_to_conflict_s", "most_threatening_bird_id", "rationale",
               "decision_id", "input_hash", "engine_version", "config_version"}
       /\ IF Query.birds = <<>>
          THEN /\ Assessment.risk_level = "NONE"
               /\ Assessment.collision_probability = 0
          ELSE /\ Assessment.risk_level = "LOW"
               /\ Assessment.collision_probability = RISK_CONFIG.prob_presence_only

(* two tracks, one gated by speed and one by distance *)
C3_Witness ==
    /\ Answered
    /\ Len(Query.birds) = 2
    /\ SpeedGate(Query.aircraft, Query.birds[1])
    /\ ~SpeedGate(Query.aircraft, Query.birds[2])
    /\ DistanceGate(Query.aircraft, Query.birds[2], RISK_CONFIG)
    /\ Assessment.risk_level = "LOW"
    /\ Assessment.collision_probability = RISK_CONFIG.prob_presence_only

InClamp(t, config) ==
    /\ Ge(t, Seconds(config.min_ttc_s))
    /\ Ge(Seconds(config.max_ttc_s), t)

(* C4 as stated: for every config, a TTC that estimate_time_to_conflict     *)
(* returns lies in [min_ttc_s, max_ttc_s], and so does every               *)
(* time_to_conflict_s of an assessment.                                    *)
C4_Original ==
    response # None
    => /\ \A i \in Valid : InClamp(TtcOf(i)[1], RISK_CONFIG)
       /\ (Answered /\ Assessment.time_to_conflict_s # None)
             => InClamp(Assessment.time_to_conflict_s[1], RISK_CONFIG)

(* C4 amended: a returned TTC is never below min_ttc_s, and for a config    *)
(* with min_ttc_s <= max_ttc_s it lies in [min_ttc_s, max_ttc_s]; the same  *)
(* holds of every time_to_conflict_s of an assessment.                      *)
C4_Clamped ==
    response # None
    => LET c == RISK_CONFIG
           ok(t) == /\ Ge(t, Seconds(c.min_ttc_s))
                    /\ c.min_ttc_s <= c.max_ttc_s => InClamp(t, c)
       IN  /\ \A i \in Valid : ok(TtcOf(i)[1])
           /\ (Answered /\ Assessment.time_to_conflict_s # None)
                 => ok(Assessment.time_to_conflict_s[1])

(* a raw TTC above max_ttc_s and one below min_ttc_s, both clamped *)
C4_Witness ==
    /\ Answered
    /\ RISK_CONFIG.min_ttc_s <= RISK_CONFIG.max_ttc_s
    /\ \E i, j \in Valid :
          /\ Lt(Seconds(RISK_CONFIG.max_ttc_s),
                Frac(Distance2(Query.aircraft, Query.birds[i]),
                     RelativeSpeed2(Query.aircraft, Query.birds[i])))
          /\ TtcOf(i) = Some(Seconds(RISK_CONFIG.max_ttc_s))
          /\ Lt(Frac(Distance2(Query.aircraft, Query.birds[j]),
                     RelativeSpeed2(Query.aircraft, Query.birds[j])),
                Seconds(RISK_CONFIG.min_ttc_s))
          /\ TtcOf(j) = Some(Seconds(RISK_CONFIG.min_ttc_s))
    /\ Assessment.time_to_conflict_s = Some(Seconds(RISK_CONFIG.min_ttc_s))

AttainsMin(i) ==
    /\ i \in Valid
    /\ \A j \in Valid : Ge(TtcOf(j)[1], TtcOf(i)[1])

(* C5: with at least one valid TTC, time_to_conflict_s is the minimum of    *)
(* the valid TTCs and most_threatening_bird_id is the id of the first track *)
(* in list order that attains it; tracks without a TTC are never selected.  *)
C5_FirstMinimum ==
    (response # None /\ Valid # {})
    => /\ Answered
       /\ \E i \in Valid :
             /\ AttainsMin(i)
             /\ \A j \in 1..(i - 1) : ~AttainsMin(j)
             /\ Assessment.time_to_conflict_s = TtcOf(i)
             /\ Assessment.most_threatening_bird_id = Some(Query.birds[i].id)

(* two tracks with different ids tied at the minimum: the earlier is named *)
C5_Witness ==
    /\ Answered
    /\ Len(Query.birds) >= 2
    /\ \E i, j \in Valid :
          /\ i < j
          /\ AttainsMin(i)
          /\ AttainsMin(j)
          /\ Query.birds[i].id # Query.birds[j].id
          /\ \A k \in 1..(i - 1) : ~AttainsMin(k)
          /\ Assessment.most_threatening_bird_id = Some(Query.birds[i].id)

Orders(n) ==
    {f \in [1..n -> 1..n] : \A i, j \in 1..n : f[i] = f[j] => i = j}

Reordered ==
    {[Query EXCEPT !.birds = [i \in 1..Len(Query.birds) |-> Query.birds[f[i]]]]
        : f \in Orders(Len(Query.birds))}

Again(query) == evaluate_risk(query, RISK_CONFIG, Assessment.decision_id).result

SameBand(a, b) ==
    /\ a.risk_level = b.risk_level
    /\ a.collision_probability = b.collision_probability
    /\ a.time_to_conflict_s = b.time_to_conflict_s

(* C6 as stated: for every permutation of the bird list evaluate_risk      *)
(* returns the same risk_level, collision_probability, time_to_conflict_s  *)
(* and most_threatening_bird_id.                                           *)
C6_Original ==
    Answered
    => \A q \in Reordered :
          LET a == Again(q)
          IN  /\ SameBand(a, Assessment)
              /\ a.most_threatening_bird_id = Assessment.most_threatening_bird_id

TiedIds == {Query.birds[i].id : i \in {j \in Valid : AttainsMin(j)}}

(* C6 amended: for every permutation of the bird list evaluate_risk         *)
(* returns the same risk_level, collision_probability and                   *)
(* time_to_conflict_s, and a most_threatening_bird_id that is the id of a   *)
(* track attaining the minimum TTC; it is the same id unless tracks with    *)
(* different ids tie for the minimum.                                       *)
C6_OrderUpToTies ==
    Answered
    => LET tied == TiedIds
       IN  \A q \in Reordered :
              LET a == Again(q)
              IN  /\ SameBand(a, Assessment)
                  /\ IF tied = {}
                     THEN a.most_threatening_bird_id = None
                     ELSE \E id \in tied : a.most_threatening_bird_id = Some(id)
                  /\ Cardinality(tied) <= 1
                        => a.most_threatening_bird_id
                              = Assessment.most_threatening_bird_id

(* the threat is the second of two different tracks, the first has a TTC *)
C6_Witness ==
    /\ Answered
    /\ Len(Query.birds) = 2
    /\ Valid = {1, 2}
    /\ Lt(TtcOf(2)[1], TtcOf(1)[1])
    /\ Query.birds[1].id # Query.birds[2].id
    /\ Assessment.most_threatening_bird_id = Some(Query.birds[2].id)
    /\ \A q \in Reordered :
          Again(q).most_threatening_bird_id = Some(Query.birds[2].id)

(* C7: estimate_time_to_conflict returns None exactly when the relative     *)
(* speed is below 1e-3 or the distance is strictly above                    *)
(* distance_threshold_m; a bird at exactly the threshold distance gets a    *)
(* TTC; a slow track gets None whatever its distance.                       *)
C7_Gates ==
    response # None
    => \A i \in DOMAIN Query.birds :
          LET rv == Minus(Query.aircraft.velocity, Query.birds[i].velocity)
              dp == Minus(Query.aircraft.position, Query.birds[i].position)
              speed2 == rv[1] * rv[1] + rv[2] * rv[2] + rv[3] * rv[3]
              dist2 == dp[1] * dp[1] + dp[2] * dp[2] + dp[3] * dp[3]
              thr == RISK_CONFIG.distance_threshold_m
              slow == speed2 < SpeedEps * SpeedEps
              far == thr < 0 \/ dist2 > thr * thr
          IN  /\ TtcOf(i) = None <=> (slow \/ far)
              /\ slow => TtcOf(i) = None
              /\ (~slow /\ thr >= 0 /\ dist2 = thr * thr) => TtcOf(i) # None

(* one track exactly at the threshold distance and exactly at the speed    *)
(* gate, which gets a TTC; one slow track within the distance, which does  *)
(* not                                                                     *)
C7_Witness ==
    /\ Answered
    /\ \E i, j \in DOMAIN Query.birds :
          /\ Distance2(Query.aircraft, Query.birds[i])
                = RISK_CONFIG.distance_threshold_m * RISK_CONFIG.distance_threshold_m
          /\ RelativeSpeed2(Query.aircraft, Query.birds[i]) = SpeedEps * SpeedEps
          /\ TtcOf(i) # None
          /\ RelativeSpeed2(Query.aircraft, Query.birds[j]) < SpeedEps * SpeedEps
          /\ ~DistanceGate(Query.aircraft, Query.birds[j], RISK_CONFIG)
          /\ TtcOf(j) = None

Appended(b) == Again([Query EXCEPT !.birds = Append(@, b)])

(* C10: with ttc_low > ttc_medium > ttc_high and min_ttc_s <= max_ttc_s,    *)
(* appending a track never lowers the risk_level in the order NONE < LOW <  *)
(* MEDIUM < HIGH < CRITICAL, and time_to_conflict_s, when both assessments  *)
(* have one, does not increase.                                             *)
C10_Monotone ==
    (/\ Answered
     /\ BandsOrdered(RISK_CONFIG)
     /\ RISK_CONFIG.min_ttc_s <= RISK_CONFIG.max_ttc_s)
    => \A b \in BirdDetection :
          LET a == Appended(b)
          IN  /\ Rank(a.risk_level) >= Rank(Assessment.risk_level)
              /\ (/\ a.time_to_conflict_s # None
                  /\ Assessment.time_to_conflict_s # None)
                    => Ge(Assessment.time_to_conflict_s[1], a.time_to_conflict_s[1])

(* a track whose appending raises LOW to CRITICAL and lowers the TTC *)
C10_Witness ==
    /\ Answered
    /\ BandsOrdered(RISK_CONFIG)
    /\ RISK_CONFIG.min_ttc_s <= RISK_CONFIG.max_ttc_s
    /\ Assessment.risk_level = "LOW"
    /\ Assessment.time_to_conflict_s # None
    /\ Assessment.time_to_conflict_s = Some(Seconds(RISK_CONFIG.ttc_low_threshold_s))
    /\ \E b \in BirdDetection :
          /\ Appended(b).risk_level = "CRITICAL"
          /\ Lt(Appended(b).time_to_conflict_s[1], Assessment.time_to_conflict_s[1])

ExceptDecisionId(a) == [f \in DOMAIN a \ {"decision_id"} |-> a[f]]

(* C8: after any sequence of calls, two calls with the same query and the   *)
(* same config have returned assessments that agree on every field except   *)
(* decision_id, and no call has changed the shared config.                  *)
C8_Deterministic ==
    /\ \A s \in served : s.config = RISK_CONFIG
    /\ \A s1, s2 \in served :
          (s1.query = s2.query /\ s1.config = s2.config)
          => ExceptDecisionId(s1.result) = ExceptDecisionId(s2.result)

(* the same conflict query answered twice, under two decision ids, with     *)
(* another query answered before                                            *)
C8_Witness ==
    /\ calls >= 2
    /\ \E s1, s2 \in served :
          /\ s1.query = s2.query
          /\ s1.result.decision_id # s2.result.decision_id
          /\ s1.result.time_to_conflict_s # None
    /\ \E s \in served : s.query.birds = <<>>

(* C9 as stated: every call has emitted exactly one log event before it     *)
(* returned, which carries decision_id, risk_level, collision_probability   *)
(* and reason, and time_to_conflict_s and most_threatening_bird_id when     *)
(* the assessment has them; decision_id, risk_level and                     *)
(* collision_probability are those of the returned assessment.              *)
C9_Original ==
    /\ Len(log) = calls
    /\ Answered
       => LET event == log[Len(log)]
          IN  /\ {"decision_id", "risk_level", "collision_probability", "reason"}
                    \subseteq DOMAIN event
              /\ event.decision_id = Assessment.decision_id
              /\ event.risk_level = Assessment.risk_level
              /\ event.collision_probability = Assessment.collision_probability
              /\ Assessment.time_to_conflict_s # None
                    => /\ "time_to_conflict_s" \in DOMAIN event
                       /\ Some(event.time_to_conflict_s) = Assessment.time_to_conflict_s
              /\ Assessment.most_threatening_bird_id # None
                    => /\ "most_threatening_bird_id" \in DOMAIN event
                       /\ Some(event.most_threatening_bird_id)
                             = Assessment.most_threatening_bird_id

====
